---- MODULE Spec2Model ----
(***************************************************************************)
(* Model of desktop_notifier/base.py: the Notification record and the      *)
(* DesktopNotifierBase orchestrator with its bounded registry              *)
(* (_current_notifications, a collections.deque with maxlen) and its       *)
(* id-index (_notification_for_nid, a dict).                               *)
(*                                                                         *)
(* send, clear and clear_all are coroutines: each runs atomically up to    *)
(* its await of the backend (_send, _clear, _clear_all) and atomically     *)
(* from the backend's answer to its end.  Calls suspended at the backend   *)
(* are kept in `calls`, so several calls may be in flight at once.         *)
(***************************************************************************)
EXTENDS Integers, Sequences, FiniteSets, TLC

\* ------------------------------------------------------------------ bounds
NumNotifs == 3      \* Notification objects the application holds
MaxId == 1          \* the backend returns identifiers 0..MaxId
MaxLimit == 2       \* notification_limit is None or 0..MaxLimit
MaxCalls == 2       \* calls suspended at the backend at one time (SpecConc)
MaxLen == 2         \* cap on the registry's length when the limit is None

\* --------------------------------------------------------------- constants
NoLimit == -1       \* notification_limit = None
NoId == -1          \* Notification._identifier = None
NoNotif == 0        \* notification_to_replace = None / a key the dict lacks

Notifs == 1..NumNotifs
\* Platform identifiers (str or int).  0 stands for the falsy ones (0, "").
Ids == 0..MaxId
Limits == {NoLimit} \cup (0..MaxLimit)

VARIABLES
    notification_limit,  \* self.notification_limit, the deque's maxlen
    app_icon,            \* self.app_icon
    cur,                 \* self._current_notifications, oldest first
    byId,                \* self._notification_for_nid; NoNotif = no such key
    identifier,          \* Notification._identifier of each notification
    icon,                \* Notification.icon of each notification
    calls,               \* calls suspended at their backend await, in call order
    snapshot,            \* a list the current_notifications property returned
    last,                \* the step taken last (history)
    hist                 \* sends so far, while they are non-overlapping sends
                         \* of distinct notifications (history)

vars == <<notification_limit, app_icon, cur, byId, identifier, icon, calls,
          snapshot, last, hist>>

\* ------------------------------------------------------- Python's values
\* Truth value of an identifier: None, 0 and "" are falsy.
Truthy(v) == v # NoId /\ v # 0

\* `if True:` in place of `if not notification.icon:`: every icon is replaced.
IconSet_Never(ic) == FALSE

\* Truth value of notification.icon: None (and "") are falsy.
IconSet(ic) == ic # "none"

EmptyIdx == [i \in Ids |-> NoNotif]

Keys(idx) == {i \in Ids : idx[i] # NoNotif}

InSeq(q, x) == \E i \in 1..Len(q) : q[i] = x

\* ----------------------------------------------------- collections.deque
\* A deque built without maxlen: append never drops an entry.
DequeAppend_NoMaxlen(q, x, lim) == Append(q, x)

\* deque.append on a deque of maxlen lim: a full deque drops its leftmost.
DequeAppend(q, x, lim) ==
    IF lim = NoLimit THEN Append(q, x)
    ELSE IF lim = 0 THEN q
    ELSE IF Len(q) >= lim THEN Append(Tail(q), x)
    ELSE Append(q, x)

\* deque.appendleft on a deque of maxlen lim: a full deque drops its rightmost.
DequeAppendLeft(q, x, lim) ==
    IF lim = NoLimit THEN <<x>> \o q
    ELSE IF lim = 0 THEN q
    ELSE IF Len(q) >= lim THEN <<x>> \o SubSeq(q, 1, Len(q) - 1)
    ELSE <<x>> \o q

\* deque.remove: drops the first occurrence; ValueError (absent) is passed.
DequeRemove(q, x) ==
    IF InSeq(q, x)
    THEN LET i == CHOOSE k \in 1..Len(q) :
                     q[k] = x /\ \A j \in 1..(k - 1) : q[j] # x
         IN SubSeq(q, 1, i - 1) \o SubSeq(q, i + 1, Len(q))
    ELSE q

\* ------------------------------------------------------------------ send
\* `if len(self._current_notifications) == self.notification_limit`
AtLimit(q, lim) == Len(q) = lim

\* popleft(): the notification handed to the backend as the one to replace.
Oldest(q) == Head(q)

\* pop() in place of popleft(): the newest entry leaves the deque.
PopLeft_Newest(q) == SubSeq(q, 1, Len(q) - 1)

\* popleft(): what stays in the deque.
PopLeft(q) == Tail(q)

\* append() in place of appendleft(): the evicted entry comes back as newest.
Rollback_AsNewest(q, repl, lim) ==
    IF repl # NoNotif THEN DequeAppend(q, repl, lim) ELSE q

\* The except branch: `if notification_to_replace: appendleft(...)`.
Rollback(q, repl, lim) ==
    IF repl # NoNotif THEN DequeAppendLeft(q, repl, lim) ELSE q

\* appendleft() in place of append(): the new entry becomes the oldest.
Commit_AsOldest(q, n, lim) == DequeAppendLeft(q, n, lim)

\* The else branch: `self._current_notifications.append(notification)`.
Commit(q, n, lim) == DequeAppend(q, n, lim)

\* The else branch: `self._notification_for_nid[platform_nid] = notification`.
IndexPut(idx, id, n) == [idx EXCEPT ![id] = n]

\* No except clause: whatever the backend call raises leaves send.
Caught_Nothing(exc, isException) == FALSE

\* `except Exception`: does the clause catch what the backend call raised?
\* A backend error is an Exception.  asyncio.CancelledError is an Exception
\* before Python 3.8 and a BaseException from 3.8 on (isException).
Caught(exc, isException) ==
    \/ exc = "Exception"
    \/ exc = "CancelledError" /\ isException

\* --------------------------------------------------- current_notifications
\* No list has been asked for yet.
NoSnapshot == [obj |-> "none", items |-> <<>>]

\* `return self._current_notifications`: the caller holds the deque itself.
ListOf_TheDeque(q) == [obj |-> "deque", items |-> q]

\* `list(self._current_notifications)`: a new list object with the deque's
\* entries, in order.
ListOf(q) == [obj |-> "list", items |-> q]

\* What the holder of the object s reads from it now: the deque's entries if
\* s is the deque, the entries the list was built with otherwise (no code of
\* the notifier writes to a list it returned).
Contents(s) == IF s.obj = "deque" THEN cur ELSE s.items

\* ------------------------------------------- _clear_notification_from_cache
CacheRemove(q, n) == DequeRemove(q, n)

\* `if notification.identifier: self._notification_for_nid.pop(identifier)`;
\* KeyError (no such key) is passed.
IndexPop(idx, ident) ==
    IF Truthy(ident) THEN [idx EXCEPT ![ident] = NoNotif] ELSE idx

\* `if notification.identifier: await self._clear(notification)`
CallsBackendClear(ident) == Truthy(ident)

\* ---------------------------------------------------------------- history
NoCall == [op |-> "none", n |-> NoNotif, repl |-> NoNotif, solo |-> FALSE,
           pre_cur |-> <<>>, pre_byId |-> EmptyIdx, again |-> FALSE]

\* The step taken last was a clear(n) that returned.
JustCleared(n) ==
    /\ last.n = n /\ last.res = "returned"
    /\ last.act \in {"ClearCall", "ClearReturn"}

\* A call record: what the suspended coroutine holds (op, n, repl) and, while
\* no other operation has run since it was called (solo), the registry as it
\* was when it was called; and whether it is a clear(n) called right after a
\* clear(n) returned (again).
NewCall(op, n, repl) ==
    [op |-> op, n |-> n, repl |-> repl, solo |-> calls = <<>>,
     pre_cur |-> IF calls = <<>> THEN cur ELSE <<>>,
     pre_byId |-> IF calls = <<>> THEN byId ELSE EmptyIdx,
     again |-> op = "clear" /\ calls = <<>> /\ JustCleared(n)]

\* Another operation runs: the calls in flight are no longer alone.
Overlapped(cs) ==
    [i \in 1..Len(cs) |->
        [cs[i] EXCEPT !.solo = FALSE, !.pre_cur = <<>>, !.pre_byId = EmptyIdx,
                      !.again = FALSE]]

Without(cs, i) == SubSeq(cs, 1, i - 1) \o SubSeq(cs, i + 1, Len(cs))

\* The step taken last: the action, the call it belongs to, how the
\* orchestrator's method ended ("pending" at the backend, "returned",
\* "raised") and whether the step invoked the backend.  For the end of a
\* send: how many calls still in flight were called before it (ahead);
\* whether the step before was the return of a clear of the notification the
\* send evicted, or of a clear_all (cleared); the notification committed by
\* the step before, if that send was called after this one (passed).
Step(act, c, res, backend) ==
    [act |-> act, n |-> c.n, repl |-> c.repl, res |-> res, solo |-> c.solo,
     pre_cur |-> c.pre_cur, pre_byId |-> c.pre_byId, backend |-> backend,
     again |-> c.again, ahead |-> 0, cleared |-> FALSE, passed |-> NoNotif]

\* The step taken last was the return of a clear of the notification the
\* send c evicted, or of a clear_all.
ReplJustCleared(c) ==
    /\ c.repl # NoNotif
    /\ JustCleared(c.repl) \/ last.act = "ClearAllReturn"

\* The notification committed by the step taken last, if that was a send
\* called after calls[i].
JustPassed(i) ==
    IF last.act = "SendReturn" /\ i <= last.ahead THEN last.n ELSE NoNotif

NoHist == [pure |-> FALSE, ok |-> <<>>, tried |-> {}]

\* ------------------------------------------------------------------- Init
\* The state __init__ leaves, with notifications the application has built
\* and not sent.
Constructed ==
    /\ cur = <<>>
    /\ byId = EmptyIdx
    /\ identifier = [n \in Notifs |-> NoId]
    /\ calls = <<>>
    /\ snapshot = NoSnapshot
    /\ last = Step("init", NoCall, "returned", FALSE)
    /\ hist = [pure |-> TRUE, ok |-> <<>>, tried |-> {}]

\* Any limit, with or without an app icon; the first notification was built
\* without an icon, the others with their own.
Init ==
    /\ notification_limit \in Limits
    /\ app_icon \in {"none", "app"}
    /\ icon = [n \in Notifs |-> IF n = 1 THEN "none" ELSE "own"]
    /\ Constructed

\* A notifier with a limit and notifications with their own icons, for the
\* runs with overlapping calls.
InitConc ==
    /\ notification_limit \in 0..MaxLimit
    /\ app_icon = "app"
    /\ icon = [n \in Notifs |-> "own"]
    /\ Constructed

\* ---------------------------------------------------------------- actions
\* send(notification), up to `await self._send(...)`.
SendCall(n, cap) ==
    /\ Len(calls) < cap
    /\ notification_limit = NoLimit => Len(cur) + Len(calls) < MaxLen
    /\ icon' = [icon EXCEPT ![n] = IF IconSet(icon[n]) THEN icon[n] ELSE app_icon]
    /\ hist' = IF hist.pure /\ calls = <<>> /\ n \notin hist.tried
               THEN [hist EXCEPT !.tried = @ \cup {n}]
               ELSE NoHist
    /\ IF AtLimit(cur, notification_limit) /\ cur = <<>>
       THEN \* popleft() from an empty deque: IndexError leaves send
            /\ last' = Step("SendCall", NewCall("send", n, NoNotif), "raised", FALSE)
            /\ UNCHANGED <<cur, calls>>
       ELSE LET repl == IF AtLimit(cur, notification_limit)
                        THEN Oldest(cur) ELSE NoNotif
                c == NewCall("send", n, repl)
            IN /\ cur' = IF repl # NoNotif THEN PopLeft(cur) ELSE cur
               /\ calls' = Append(Overlapped(calls), c)
               /\ last' = Step("SendCall", c, "pending", TRUE)
    /\ UNCHANGED <<snapshot, notification_limit, app_icon, byId, identifier>>

\* The backend's _send returned platform_nid = id: the else branch.
SendReturn(i, id) ==
    /\ i \in 1..Len(calls)
    /\ calls[i].op = "send"
    /\ LET c == calls[i] IN
        /\ identifier' = [identifier EXCEPT ![c.n] = id]
        /\ cur' = Commit(cur, c.n, notification_limit)
        /\ byId' = IndexPut(byId, id, c.n)
        /\ calls' = Without(calls, i)
        /\ last' = [Step("SendReturn", c, "returned", FALSE)
                        EXCEPT !.ahead = i - 1, !.passed = JustPassed(i)]
        /\ hist' = IF hist.pure THEN [hist EXCEPT !.ok = Append(@, c.n)]
                   ELSE NoHist
    /\ UNCHANGED <<snapshot, notification_limit, app_icon, icon>>

\* What send does when the awaited backend call raises exc.
SendExcept(i, act, exc, isException) ==
    /\ i \in 1..Len(calls)
    /\ calls[i].op = "send"
    /\ LET c == calls[i] IN
        /\ IF Caught(exc, isException)
           THEN /\ cur' = Rollback(cur, c.repl, notification_limit)
                /\ last' = [Step(act, c, "returned", FALSE)
                                EXCEPT !.cleared = ReplJustCleared(c)]
           ELSE /\ cur' = cur
                /\ last' = [Step(act, c, "raised", FALSE)
                                EXCEPT !.cleared = ReplJustCleared(c)]
        /\ calls' = Without(calls, i)
    /\ UNCHANGED <<snapshot, notification_limit, app_icon, byId, identifier, icon>>

\* The backend's _send failed: it raised an Exception.
SendFail(i) ==
    /\ SendExcept(i, "SendFail", "Exception", TRUE)
    /\ UNCHANGED hist

\* The backend's _send was cancelled (a timeout, a cancelled task):
\* asyncio.CancelledError is raised at the await.  Whether it is an Exception
\* depends on the Python version the program runs on.
SendCancel(i) ==
    /\ \E isException \in BOOLEAN :
          SendExcept(i, "SendCancel", "CancelledError", isException)
    /\ hist' = NoHist

\* clear(notification), up to `await self._clear(notification)`; with a falsy
\* identifier there is no await and the call runs to its end.
ClearCall(n, cap) ==
    /\ Len(calls) < cap
    /\ IF CallsBackendClear(identifier[n])
       THEN LET c == NewCall("clear", n, NoNotif) IN
            /\ calls' = Append(Overlapped(calls), c)
            /\ last' = Step("ClearCall", c, "pending", TRUE)
            /\ UNCHANGED <<cur, byId>>
       ELSE /\ cur' = CacheRemove(cur, n)
            /\ byId' = IndexPop(byId, identifier[n])
            /\ calls' = Overlapped(calls)
            /\ last' = Step("ClearCall", NewCall("clear", n, NoNotif),
                            "returned", FALSE)
    /\ hist' = NoHist
    /\ UNCHANGED <<snapshot, notification_limit, app_icon, identifier, icon>>

\* The backend's _clear returned: _clear_notification_from_cache runs.
ClearReturn(i) ==
    /\ i \in 1..Len(calls)
    /\ calls[i].op = "clear"
    /\ LET c == calls[i] IN
        /\ cur' = CacheRemove(cur, c.n)
        /\ byId' = IndexPop(byId, identifier[c.n])
        /\ calls' = Without(calls, i)
        /\ last' = Step("ClearReturn", c, "returned", FALSE)
    /\ UNCHANGED <<snapshot, notification_limit, app_icon, identifier, icon, hist>>

\* The backend's _clear raised: the error leaves clear, the cache is untouched.
ClearFail(i) ==
    /\ i \in 1..Len(calls)
    /\ calls[i].op = "clear"
    /\ LET c == calls[i] IN
        /\ calls' = Without(calls, i)
        /\ last' = Step("ClearFail", c, "raised", FALSE)
    /\ UNCHANGED <<snapshot, notification_limit, app_icon, cur, byId, identifier, icon,
                   hist>>

\* clear_all(), up to `await self._clear_all()`.
ClearAllCall(cap) ==
    /\ Len(calls) < cap
    /\ LET c == NewCall("clear_all", NoNotif, NoNotif) IN
        /\ calls' = Append(Overlapped(calls), c)
        /\ last' = Step("ClearAllCall", c, "pending", TRUE)
    /\ hist' = NoHist
    /\ UNCHANGED <<snapshot, notification_limit, app_icon, cur, byId, identifier, icon>>

\* The backend's _clear_all returned: both structures are cleared.
ClearAllReturn(i) ==
    /\ i \in 1..Len(calls)
    /\ calls[i].op = "clear_all"
    /\ cur' = <<>>
    /\ byId' = EmptyIdx
    /\ calls' = Without(calls, i)
    /\ last' = Step("ClearAllReturn", calls[i], "returned", FALSE)
    /\ UNCHANGED <<snapshot, notification_limit, app_icon, identifier, icon, hist>>

\* The backend's _clear_all raised: the error leaves clear_all.
ClearAllFail(i) ==
    /\ i \in 1..Len(calls)
    /\ calls[i].op = "clear_all"
    /\ calls' = Without(calls, i)
    /\ last' = Step("ClearAllFail", calls[i], "raised", FALSE)
    /\ UNCHANGED <<snapshot, notification_limit, app_icon, cur, byId, identifier, icon,
                   hist>>

\* A backend calls _clear_notification_from_cache(n): the notification was
\* closed by the user or the system.  Backends call it for notifications
\* they track, that is, sent ones.
BackendClosed(n) ==
    /\ identifier[n] # NoId
    /\ cur' = CacheRemove(cur, n)
    /\ byId' = IndexPop(byId, identifier[n])
    /\ calls' = Overlapped(calls)
    /\ last' = Step("BackendClosed", [NoCall EXCEPT !.n = n], "returned", FALSE)
    /\ hist' = NoHist
    /\ UNCHANGED <<snapshot, notification_limit, app_icon, identifier, icon>>

\* The application reads the current_notifications property and keeps the
\* list it gets.
CurrentNotifications ==
    /\ snapshot' = ListOf(cur)
    /\ UNCHANGED <<notification_limit, app_icon, cur, byId, identifier, icon,
                   calls, last, hist>>

\* The application awaits each call before it makes the next one; the
\* backend's hook runs at any time.
Next ==
    \/ \E n \in Notifs : SendCall(n, 1)
    \/ \E id \in Ids : SendReturn(1, id)
    \/ SendFail(1)
    \/ SendCancel(1)
    \/ \E n \in Notifs : ClearCall(n, 1)
    \/ ClearReturn(1)
    \/ ClearFail(1)
    \/ ClearAllCall(1)
    \/ ClearAllReturn(1)
    \/ ClearAllFail(1)
    \/ \E n \in Notifs : BackendClosed(n)

Spec == Init /\ [][Next]_vars

\* The application's tasks call concurrently: up to MaxCalls calls are
\* suspended at the backend at one time and complete in any order.
NextConc ==
    \/ \E n \in Notifs : SendCall(n, MaxCalls)
    \/ \E i \in 1..MaxCalls, id \in Ids : SendReturn(i, id)
    \/ \E i \in 1..MaxCalls : SendFail(i)
    \/ \E i \in 1..MaxCalls : SendCancel(i)
    \/ \E n \in Notifs : ClearCall(n, MaxCalls)
    \/ \E i \in 1..MaxCalls : ClearReturn(i)
    \/ \E i \in 1..MaxCalls : ClearFail(i)
    \/ ClearAllCall(MaxCalls)
    \/ \E i \in 1..MaxCalls : ClearAllReturn(i)
    \/ \E i \in 1..MaxCalls : ClearAllFail(i)
    \/ \E n \in Notifs : BackendClosed(n)

SpecConc == InitConc /\ [][NextConc]_vars

\* A notifier with the largest limit, whose application also reads
\* current_notifications between its calls and while they are in flight.
InitSnap ==
    /\ notification_limit = MaxLimit
    /\ app_icon = "app"
    /\ icon = [n \in Notifs |-> "own"]
    /\ Constructed

NextSnap ==
    \/ \E n \in Notifs : SendCall(n, 1)
    \/ \E id \in Ids : SendReturn(1, id)
    \/ SendFail(1)
    \/ SendCancel(1)
    \/ \E n \in Notifs : ClearCall(n, 1)
    \/ ClearReturn(1)
    \/ ClearFail(1)
    \/ ClearAllCall(1)
    \/ ClearAllReturn(1)
    \/ ClearAllFail(1)
    \/ \E n \in Notifs : BackendClosed(n)
    \/ CurrentNotifications

SpecSnap == InitSnap /\ [][NextSnap]_vars

\* ------------------------------------------------------------------ claims
\* The id-index and the ordered registry agree: every entry of the registry
\* with an identifier is indexed under it, and every key of the index is the
\* identifier of an entry of the registry.
IndexAgrees ==
    /\ \A k \in 1..Len(cur) :
          identifier[cur[k]] # NoId => byId[identifier[cur[k]]] = cur[k]
    /\ \A id \in Keys(byId) : \E k \in 1..Len(cur) : identifier[cur[k]] = id

\* The last step ended a call of clear (with or without a backend call).
ClearEnded ==
    \/ last.act \in {"ClearReturn", "ClearFail"}
    \/ last.act = "ClearCall" /\ last.res # "pending"

\* The last k entries of s.
LastN(s, k) == SubSeq(s, Len(s) - k + 1, Len(s))

\* C1: with notification_limit = N, the registry never holds more than N
\* notifications, whatever calls overlap and however they end.
C1_WithinLimit ==
    notification_limit # NoLimit => Len(cur) <= notification_limit

\* C1 witness: a send that found room when called, overlapped by another
\* operation, has committed and the registry is at its limit.
C1_Witness ==
    /\ notification_limit >= 1
    /\ last.act = "SendReturn" /\ last.repl = NoNotif /\ ~last.solo
    /\ Len(cur) = notification_limit

\* C2: after a send, clear or clear_all that returned, with no call in
\* flight, the id-index and the ordered registry agree.
C2_IndexAgreesAfterCall ==
    ( /\ calls = <<>>
      /\ last.res = "returned"
      /\ last.act \in {"SendReturn", "SendFail", "SendCancel", "ClearCall",
                       "ClearReturn", "ClearAllReturn"} )
    => IndexAgrees

\* C3: a send called with no other operation in flight, and not overlapped
\* until the backend fails, leaves the ordered registry and the id-index as
\* they were when it was called.
C3_FailedSendRestores ==
    (last.act = "SendFail" /\ last.solo)
    => (cur = last.pre_cur /\ byId = last.pre_byId)

\* C3 witness: a failed send has restored the entry it evicted from a full
\* registry of two.
C3_Witness ==
    /\ last.act = "SendFail" /\ last.solo /\ last.repl # NoNotif
    /\ Len(cur) = 2 /\ cur[1] = last.repl /\ cur[2] # cur[1]

\* C4: after non-overlapping sends of distinct notifications of which more
\* than N succeeded, the registry is the N notifications sent successfully
\* last, oldest first; failed sends add and evict nothing.
C4_LastNSuccessful ==
    ( /\ hist.pure /\ calls = <<>>
      /\ notification_limit # NoLimit
      /\ Len(hist.ok) > notification_limit )
    => cur = LastN(hist.ok, notification_limit)

\* C4 witness: more sends succeeded than the limit and the last send, which
\* had evicted the oldest entry, failed.
C4_Witness ==
    /\ hist.pure /\ calls = <<>>
    /\ notification_limit >= 1
    /\ Len(hist.ok) > notification_limit
    /\ last.act = "SendFail" /\ last.repl # NoNotif

\* C5: when the backend's send raises an error, send returns normally.
C5_SendSwallowsFailure ==
    last.act = "SendFail" => last.res = "returned"

\* C5 witness: the backend's send has failed and send has returned.
C5_Witness ==
    last.act = "SendFail" /\ last.res = "returned" /\ last.backend = FALSE

\* C6: after clear_all, whether the backend's clear_all returned or raised,
\* the ordered registry and the id-index are empty.
C6_ClearAllEmpties ==
    last.act \in {"ClearAllReturn", "ClearAllFail"}
    => (cur = <<>> /\ byId = EmptyIdx)

\* C7: after clear(n), whether the backend's clear returned or raised, n is
\* not in the registry and n's identifier is not a key of the id-index.
C7_ClearRemoves ==
    ClearEnded
    => /\ ~InSeq(cur, last.n)
       /\ identifier[last.n] # NoId => byId[identifier[last.n]] = NoNotif

\* C8: clear(n) invokes the backend's clear exactly when n has an identifier;
\* for a never-sent n the registry is unchanged and clear returns.
C8_BackendClearIffIdentifier ==
    last.act = "ClearCall"
    => /\ last.backend <=> identifier[last.n] # NoId
       /\ (identifier[last.n] = NoId /\ last.solo)
            => (cur = last.pre_cur /\ byId = last.pre_byId
                /\ last.res = "returned")

\* C9: once a notification has an identifier, no step changes it.
C9_IdentifierAssignedOnce ==
    [][\A n \in Notifs :
          identifier[n] # NoId => identifier'[n] = identifier[n]]_vars

\* C10: when the backend call of a send is cancelled, the notification the
\* send evicted is back as the oldest entry; if nothing else ran meanwhile,
\* the registry is as it was when send was called.
C10_CancelledSendRestores ==
    (last.act = "SendCancel" /\ last.repl # NoNotif)
    => /\ cur # <<>> /\ Head(cur) = last.repl
       /\ last.solo => (cur = last.pre_cur /\ byId = last.pre_byId)

\* The entries of q other than n, in order.
Others(q, n) == SelectSeq(q, LAMBDA x : x # n)

\* The step being taken removes n from the cache: a clear(n) that reaches
\* _clear_notification_from_cache, or the backend's hook for n.
Removes(n) ==
    /\ last'.n = n
    /\ \/ last'.act \in {"ClearReturn", "BackendClosed"}
       \/ last'.act = "ClearCall" /\ last'.res = "returned"

\* C12: the backend's send receives a notification whose icon was unset with
\* the notifier's app_icon, and one whose icon was set with that icon.
C12_DefaultIcon ==
    [][\A n \in Notifs :
          (last'.act = "SendCall" /\ last'.n = n /\ last'.backend)
          => icon'[n] = IF icon[n] = "none" THEN app_icon ELSE icon[n]]_vars

\* C12 witness: the backend was handed the notification built without an
\* icon, which now carries the app icon.
C12_Witness ==
    /\ last.act = "SendCall" /\ last.backend /\ last.n = 1
    /\ app_icon = "app" /\ icon[1] = "app"

\* C14: the rollback of a failed send removes no notification from the
\* registry, whatever sends have committed while it was in flight.
C14_RollbackKeepsCommitted ==
    [][last'.act = "SendFail"
          => \A m \in Notifs : InSeq(cur, m) => InSeq(cur', m)]_vars

\* C17: clear(n) and the hook for n leave every other notification where it
\* was, relative to the others, and every id-index entry that maps to
\* another notification as it was.
C17_RemovalLeavesOthers ==
    [][\A n \in Notifs :
          Removes(n)
          => /\ Others(cur', n) = Others(cur, n)
             /\ \A id \in Ids :
                   (byId[id] # NoNotif /\ byId[id] # n)
                   => byId'[id] = byId[id]]_vars

\* C18: send never evicts from an empty registry, so its make-room step
\* raises nothing, whatever the limit.
C18_NoEvictionFromEmpty ==
    last.act = "SendCall" => last.res # "raised"

\* C19: the entries of the registry are pairwise distinct notifications.
C19_NoDuplicates ==
    \A i, j \in 1..Len(cur) : i # j => cur[i] # cur[j]

\* C11: a clear(n) called right after a clear(n) returned leaves the ordered
\* registry and the id-index as the first one left them and raises nothing of
\* its own; a clear_all that returns leaves both structures empty, the first
\* time and the second.
C11_ClearIdempotent ==
    /\ (ClearEnded /\ last.again)
       => /\ cur = last.pre_cur /\ byId = last.pre_byId
          /\ last.act # "ClearFail" => last.res = "returned"
    /\ last.act = "ClearAllReturn" => (cur = <<>> /\ byId = EmptyIdx)

\* C15: a send of another notification that fails or is cancelled right
\* after a clear of the notification it evicted, or a clear_all, has returned
\* does not put that notification back into the registry.
C15_ClearedStaysOut ==
    ( /\ last.act \in {"SendFail", "SendCancel"}
      /\ last.cleared /\ last.repl # last.n )
    => ~InSeq(cur, last.repl)

\* C16: when a send commits right after a send that was called later has
\* committed another notification, its entry is the newest of the registry,
\* after every entry of that notification: the order is that of the commits,
\* not that of the calls.
C16_CommitOrder ==
    ( /\ last.act = "SendReturn"
      /\ last.passed # NoNotif /\ last.passed # last.n
      /\ InSeq(cur, last.passed) /\ InSeq(cur, last.n) )
    => /\ cur[Len(cur)] = last.n
       /\ \A k \in 1..Len(cur) : cur[k] = last.passed => k < Len(cur)

\* C16 witness: the send called first committed second, and the registry
\* holds the two notifications in the order of the commits.
C16_Witness ==
    /\ last.act = "SendReturn"
    /\ last.passed # NoNotif /\ last.passed # last.n
    /\ cur = <<last.passed, last.n>>

\* C13: a list returned by current_notifications keeps the entries and the
\* order it was returned with, whatever send, clear, clear_all or the hook do
\* to the registry afterwards.
C13_SnapshotUnchanged ==
    snapshot.obj # "none" => Contents(snapshot) = snapshot.items

\* C13 witness: a list of two was returned and the registry has since been
\* changed by an operation.
C13_Witness ==
    /\ snapshot.obj = "list" /\ Len(snapshot.items) = 2
    /\ snapshot.items[1] # snapshot.items[2]
    /\ cur # snapshot.items
    /\ last.act \in {"SendReturn", "ClearReturn", "ClearAllReturn",
                     "BackendClosed"}

====
